---- MODULE Spec2Model ----
(***************************************************************************)
(* Model of discord_bot.py: the command registry and dispatcher of Bot,    *)
(* its permission pipeline, and the menu state machine that keeps its      *)
(* state in the footer of rendered messages.                               *)
(*                                                                         *)
(* Text is modelled as sequences of one-character strings, so that         *)
(* str.lstrip, str.startswith, shlex.split, the f-string footer and the    *)
(* state regex are computed character by character.                        *)
(***************************************************************************)
EXTENDS Integers, Sequences, FiniteSets, TLC

\* ---------------------------------------------------------------------
\* Bounds of the model
\* ---------------------------------------------------------------------
MaxPosts == 1
MaxMenuPosts == 3
MaxFooterPage == 24

\* the highest page the menu shows when two dispatches start to race
MaxRacePage == 9

\* the most parameters a handler declares besides the message
MaxParams == 3

\* ---------------------------------------------------------------------
\* Text helpers
\* ---------------------------------------------------------------------
Range(s) == { s[i] : i \in 1..Len(s) }

DigitChars == <<"0", "1", "2", "3", "4", "5", "6", "7", "8", "9">>

IsDigit(c) == c \in Range(DigitChars)

DigitValue(c) == (CHOOSE i \in 1..10 : DigitChars[i] = c) - 1

\* str(n) for an int, as f"{page}" formats it
RECURSIVE NatStr(_)
NatStr(n) == IF n < 10 THEN <<DigitChars[n + 1]>>
             ELSE NatStr(n \div 10) \o <<DigitChars[(n % 10) + 1]>>

IntStr(n) == IF n < 0 THEN <<"-">> \o NatStr(0 - n) ELSE NatStr(n)

\* int(s) for a string of decimal digits
RECURSIVE DigitsInt(_)
DigitsInt(s) == IF Len(s) = 0 THEN 0
                ELSE 10 * DigitsInt(SubSeq(s, 1, Len(s) - 1)) + DigitValue(s[Len(s)])

\* int(token) as argparse's type=int applies it: a ValueError for anything
\* that is not an optionally signed run of digits
IsIntToken(s) ==
    LET body == IF Len(s) > 0 /\ s[1] \in {"-", "+"} THEN Tail(s) ELSE s
    IN  Len(body) > 0 /\ \A i \in 1..Len(body) : IsDigit(body[i])

\* int(token) of a token IsIntToken accepts
ParseInt(s) == IF s[1] = "-" THEN 0 - DigitsInt(Tail(s))
               ELSE IF s[1] = "+" THEN DigitsInt(Tail(s))
               ELSE DigitsInt(s)

\* the type= callable of an argument applied to its token
Convert(type, tok) == IF type = "int" THEN ParseInt(tok) ELSE tok

StartsWith(s, p) == Len(s) >= Len(p) /\ SubSeq(s, 1, Len(p)) = p

\* str.lstrip(chars): drops every leading character that occurs in chars
RECURSIVE LStrip(_, _)
LStrip(s, chars) == IF Len(s) > 0 /\ s[1] \in Range(chars)
                    THEN LStrip(Tail(s), chars) ELSE s

\* shlex.split(s): POSIX lexer, whitespace_split, no comment characters.
\* st is the lexer state: "ws" between tokens, "tok" inside a token,
\* "dq"/"sq" inside quotes, "esc"/"dqesc" after a backslash.
\* A quote or escape still open at the end of the text is a ValueError.
RECURSIVE Lex(_, _, _, _, _)
Lex(s, i, st, tok, out) ==
    IF i > Len(s)
    THEN CASE st = "ws"  -> [ok |-> TRUE, tokens |-> out]
           [] st = "tok" -> [ok |-> TRUE, tokens |-> Append(out, tok)]
           [] OTHER      -> [ok |-> FALSE, tokens |-> out]
    ELSE LET c == s[i] IN
         CASE st \in {"ws", "tok"} /\ c = " " ->
                  Lex(s, i + 1, "ws", <<>>,
                      IF st = "tok" THEN Append(out, tok) ELSE out)
           [] st \in {"ws", "tok"} /\ c = "\"" -> Lex(s, i + 1, "dq", tok, out)
           [] st \in {"ws", "tok"} /\ c = "'" -> Lex(s, i + 1, "sq", tok, out)
           [] st \in {"ws", "tok"} /\ c = "\\" -> Lex(s, i + 1, "esc", tok, out)
           [] st \in {"ws", "tok"} /\ c \notin {" ", "\"", "'", "\\"} ->
                  Lex(s, i + 1, "tok", Append(tok, c), out)
           [] st = "esc" -> Lex(s, i + 1, "tok", Append(tok, c), out)
           [] st = "dq" /\ c = "\"" -> Lex(s, i + 1, "tok", tok, out)
           [] st = "dq" /\ c = "\\" -> Lex(s, i + 1, "dqesc", tok, out)
           [] st = "dq" /\ c \notin {"\"", "\\"} ->
                  Lex(s, i + 1, "dq", Append(tok, c), out)
           [] st = "dqesc" ->
                  Lex(s, i + 1, "dq",
                      IF c \in {"\"", "\\"} THEN Append(tok, c)
                      ELSE tok \o <<"\\", c>>, out)
           [] st = "sq" /\ c = "'" -> Lex(s, i + 1, "tok", tok, out)
           [] st = "sq" /\ c # "'" -> Lex(s, i + 1, "sq", Append(tok, c), out)

split(s) == Lex(s, 1, "ws", <<>>, <<>>)

\* ---------------------------------------------------------------------
\* Identities seen through the transport
\* ---------------------------------------------------------------------
BotUser == "bot"

\* the application's registered owner (a Member of the server)
AppOwner == "owner"

\* discord.AppInfo.owner as check_owner reads it: an attribute of the
\* AppInfo class itself, which is no user of any server
AppInfoOwnerAttr == "AppInfo.owner"

Users == {"bot", "owner", "mod", "alice", "ghost"}

\* Member objects carry server_permissions and nick; a plain User (an
\* author seen outside a server, or one who left it) carries neither
IsMember(a) == a \in {"bot", "owner", "mod", "alice"}

\* flags the Permissions object has an attribute for
KnownFlags == {"administrator", "manage_messages"}

HeldFlags(a) == CASE a = "owner" -> {"administrator", "manage_messages"}
                  [] a = "mod"   -> {"administrator"}
                  [] a = "alice" -> {"manage_messages"}
                  [] OTHER       -> {}

\* Member.nick: None unless a nickname was set
Nick(a) == IF a = "mod" THEN "Moddy" ELSE "None"

Mention(a) == a

\* ---------------------------------------------------------------------
\* Names and texts
\* ---------------------------------------------------------------------
prefix == <<"!">>

\* argparse's value of a dest that no token set
None == <<"None">>

\* the names commands and menus are registered and invoked under
nm ==
    [next |-> <<"n", "e", "x", "t">>,
     back |-> <<"b", "a", "c", "k">>,
     select |-> <<"s", "e", "l", "e", "c", "t">>,
     dismiss |-> <<"d", "i", "s", "m", "i", "s", "s">>,
     ping |-> <<"p", "i", "n", "g">>,
     add |-> <<"a", "d", "d">>,
     fruits |-> <<"f", "r", "u", "i", "t", "s">>,
     colors |-> <<"c", "o", "l", "o", "r", "s">>,
     rules |-> <<"r", "u", "l", "e", "s">>,
     tools |-> <<"t", "o", "o", "l", "s">>]

\* the user handlers that get registered: ping(message), add(message, n: int)
Handlers == {"ping", "add"}

BuiltinHandlers == {"next", "back", "select", "dismiss"}

\* members["__name__"] of a handler
FunctionName(h) == CASE h = "ping" -> nm.ping
                     [] h = "add" -> nm.add
                     [] h = "next" -> nm.next
                     [] h = "back" -> nm.back
                     [] h = "select" -> nm.select
                     [] h = "dismiss" -> nm.dismiss

\* a declared parameter: its name, annotation and kind. The annotations
\* are discord.Message ("Message"), int, str, none ("empty"), the
\* booleans True and False, and a dict with a const entry ("const")
Param(name, annotation) ==
    [name |-> name, annotation |-> annotation,
     kind |-> "POSITIONAL_OR_KEYWORD"]

\* inspect.signature(command).parameters of a handler
Signature(h) ==
    CASE h = "add" -> <<Param("message", "Message"), Param("n", "int")>>
      [] h = "select" -> <<Param("message", "Message"), Param("choice", "int")>>
      [] OTHER -> <<Param("message", "Message")>>

\* __parse_keyword_postional(parameter, name, sub_parser): the arguments
\* add_argument receives. "type = str" makes type a local name of the
\* whole function, so type(parameter.annotation) is str(annotation), a
\* string object: it is neither the class bool nor the class dict, and
\* both tests are false for every annotation
parse_keyword_postional(parameter) ==
    [dest |-> parameter.name,
     action |-> IF "str object" = "bool"
                THEN IF parameter.annotation = "True" THEN "store_true"
                     ELSE "store_false"
                ELSE IF "str object" = "dict" THEN "store_const"
                ELSE "store",
     const |-> IF "str object" # "bool" /\ "str object" = "dict"
               THEN "const entry" ELSE "None",
     type |-> IF "str object" # "bool" /\ "str object" # "dict"
                 /\ parameter.annotation = "int"
              THEN "int" ELSE "str"]

\* the loop of __parse_parameters over the signature: every parameter
\* not annotated discord.Message that is positional-or-keyword or
\* keyword-only gets an argument, in declaration order
parse_parameters(signature) ==
    LET Takes(q) == /\ q.annotation # "Message"
                    /\ q.kind \in {"POSITIONAL_OR_KEYWORD", "KEYWORD_ONLY"}
    IN  [i \in 1..Len(SelectSeq(signature, Takes)) |->
           parse_keyword_postional(SelectSeq(signature, Takes)[i])]

\* the grammar entries of handler h's sub-parser
Parameters(h) == parse_parameters(Signature(h))

\* ---------------------------------------------------------------------
\* argparse, as BotParser uses it
\* ---------------------------------------------------------------------
HasSpace(tok) == \E i \in 1..Len(tok) : tok[i] = " "

\* ArgumentParser._parse_optional: does the token look like an option
OptionLike(tok) ==
    /\ Len(tok) > 1
    /\ tok[1] = "-"
    /\ ~IsIntToken(tok)
    /\ ~HasSpace(tok)

helpLong == <<"-", "-", "h", "e", "l", "p">>

\* the -h/--help option every sub-parser gets from add_parser (add_help
\* defaults to True there), with the abbreviations allow_abbrev accepts
IsHelpOption(tok) ==
    \/ tok = <<"-", "h">>
    \/ Len(tok) >= 3 /\ StartsWith(helpLong, tok)

\* a sub-parser consuming its argument strings from position i on.
\* params are the positionals not yet filled. The result's status is
\* "ok", "SyntaxError" (BotParser.error) or "SystemExit" (the help action)
RECURSIVE SubParse(_, _, _, _, _)
SubParse(toks, i, params, vals, extras) ==
    IF i > Len(toks)
    THEN IF Len(params) > 0
         THEN [status |-> "SyntaxError", vals |-> vals, extras |-> extras]
         ELSE [status |-> "ok", vals |-> vals, extras |-> extras]
    ELSE LET tok == toks[i] IN
         IF OptionLike(tok)
         THEN IF IsHelpOption(tok)
              THEN [status |-> "SystemExit", vals |-> vals, extras |-> extras]
              ELSE SubParse(toks, i + 1, params, vals, Append(extras, tok))
         ELSE IF Len(params) = 0
              THEN SubParse(toks, i + 1, params, vals, Append(extras, tok))
              ELSE LET p == Head(params) IN
                   IF p.type = "int" /\ ~IsIntToken(tok)
                   THEN [status |-> "SyntaxError", vals |-> vals,
                         extras |-> extras]
                   ELSE SubParse(toks, i + 1, Tail(params),
                                 Append(vals, [dest |-> p.dest,
                                               value |-> Convert(p.type, tok)]),
                                 extras)

\* index of the first token of toks that is not option-like (0 if none)
FirstPositional(toks) ==
    IF \E i \in 1..Len(toks) : ~OptionLike(toks[i])
    THEN CHOOSE i \in 1..Len(toks) :
            /\ ~OptionLike(toks[i])
            /\ \A j \in 1..(i - 1) : OptionLike(toks[j])
    ELSE 0

\* the Namespace as a dict: "command" plus one key per filled dest
Namespace(cmd, vals) ==
    [k \in {"command"} \cup { vals[i].dest : i \in 1..Len(vals) } |->
        IF k = "command" THEN cmd
        ELSE (CHOOSE v \in Range(vals) : v.dest = k).value]

\* the top-level parser after the sub-parser of command cmd returned r;
\* f is the position of the command among the argument strings
SubParsed(cmd, f, r) ==
    IF r.status # "ok"
    THEN [status |-> r.status, ns |-> Namespace(cmd, r.vals)]
    ELSE IF f > 1 \/ Len(r.extras) > 0
         THEN [status |-> "SyntaxError", ns |-> Namespace(cmd, r.vals)]
         ELSE [status |-> "ok", ns |-> Namespace(cmd, r.vals)]

\* the top-level parser with its first positional at position f
ParseFrom(toks, f, grammar) ==
    IF f = 0
    THEN IF Len(toks) > 0
         THEN [status |-> "SyntaxError", ns |-> Namespace(None, <<>>)]
         ELSE [status |-> "ok", ns |-> Namespace(None, <<>>)]
    ELSE IF toks[f] \notin DOMAIN grammar
         THEN [status |-> "SyntaxError", ns |-> Namespace(None, <<>>)]
         ELSE SubParsed(toks[f], f,
                        SubParse(toks, f + 1, grammar[toks[f]], <<>>, <<>>))

\* self.__parser.parse_args(args=toks); grammar maps each sub-command
\* name to its positionals
parse_args(toks, grammar) == ParseFrom(toks, FirstPositional(toks), grammar)

\* ---------------------------------------------------------------------
\* Menu state: the footer encoding and the state regex
\* ---------------------------------------------------------------------
items_per_page == 5

\* limit= of logs_from in __find_menu
history_limit == 50

LowerChars == <<"a", "b", "c", "d", "e", "f", "g", "h", "i", "j", "k", "l", "m",
                "n", "o", "p", "q", "r", "s", "t", "u", "v", "w", "x", "y", "z">>

UpperChars == <<"A", "B", "C", "D", "E", "F", "G", "H", "I", "J", "K", "L", "M",
                "N", "O", "P", "Q", "R", "S", "T", "U", "V", "W", "X", "Y", "Z">>

\* the character class [1-9] of the page group
PageClass == Range(DigitChars) \ {"0"}

\* the character class [a-zA-Z_] of the list group
ListClass == Range(LowerChars) \cup Range(UpperChars) \cup {"_"}

txtPage == <<"P", "a", "g", "e", ":", " ">>
txtList == <<" ", "L", "i", "s", "t", ":", " ">>
txtSelection == <<" ", "S", "e", "l", "e", "c", "t", "i", "o", "n", ":", " ">>
txtTrue == <<"T", "r", "u", "e">>
txtFalse == <<"F", "a", "l", "s", "e">>

\* f"{allow_selection}"
BoolStr(b) == IF b THEN txtTrue ELSE txtFalse

\* state_string of __create_embed_menu
state_string(page, title, allow_selection) ==
    txtPage \o IntStr(page) \o txtList \o title \o txtSelection
            \o BoolStr(allow_selection)

\* length of the longest run of characters of class cls that s starts with
RECURSIVE RunLen(_, _)
RunLen(s, cls) == IF Len(s) > 0 /\ s[1] \in cls
                  THEN 1 + RunLen(Tail(s), cls) ELSE 0

Drop(s, n) == SubSeq(s, n + 1, Len(s))

NoMatch == [match |-> FALSE, page |-> 0, list |-> <<>>,
            allow_selection |-> FALSE]

\* the regex after "Selection: ": (True|False) and the end of the text;
\* the groups are decoded as __find_menu does (int, str, == "True")
MatchBool(digits, name, rest) ==
    IF rest \notin {txtTrue, txtFalse} THEN NoMatch
    ELSE [match |-> TRUE, page |-> DigitsInt(digits), list |-> name,
          allow_selection |-> (rest = txtTrue)]

\* the regex after the list group: " Selection: "
MatchSelection(digits, name, rest) ==
    IF Len(name) = 0 \/ ~StartsWith(rest, txtSelection) THEN NoMatch
    ELSE MatchBool(digits, name, Drop(rest, Len(txtSelection)))

\* the list group ([a-zA-Z_]+) at the head of rest
MatchList(digits, rest) ==
    MatchSelection(digits, SubSeq(rest, 1, RunLen(rest, ListClass)),
                   Drop(rest, RunLen(rest, ListClass)))

\* the regex after the page group: " List: "
MatchPage(digits, rest) ==
    IF Len(digits) = 0 \/ ~StartsWith(rest, txtList) THEN NoMatch
    ELSE MatchList(digits, Drop(rest, Len(txtList)))

\* the page group ([1-9]+) at the head of rest
MatchDigits(rest) ==
    MatchPage(SubSeq(rest, 1, RunLen(rest, PageClass)),
              Drop(rest, RunLen(rest, PageClass)))

\* self.__state_regex.fullmatch(footer) followed by the group decoding of
\* __find_menu: "Page: ([1-9]+) List: ([a-zA-Z_]+) Selection: (True|False)".
\* Neither class contains the blank that follows its group, so each group
\* is the whole run of class characters.
state_regex_fullmatch(footer) ==
    IF ~StartsWith(footer, txtPage) THEN NoMatch
    ELSE MatchDigits(Drop(footer, Len(txtPage)))

\* self.user.name
bot_name == <<"B", "o", "t">>

txtMenu == <<" ", "m", "e", "n", "u", ":">>

\* title_prefix of __find_menu
title_prefix == bot_name \o txtMenu

\* embed_title of __create_embed_menu
embed_title(title) == bot_name \o txtMenu \o <<" ">> \o title

\* options[index] of a Python list: negative indices count from the end,
\* anything outside -len..len-1 is an IndexError
IndexOk(options, index) == (0 - Len(options)) <= index /\ index < Len(options)

PyIndex(options, index) == IF index < 0 THEN options[Len(options) + index + 1]
                           ELSE options[index + 1]

NoEmbed == [title |-> <<>>, footer |-> <<>>, fields |-> <<>>,
            description |-> <<>>]

\* __create_embed_menu(title, page, allow_selection) with the registry
\* menus. error is "none", "KeyError" (no such menu) or "IndexError" (the
\* page reaches past the options)
create_embed_menu(menus, title, page, allow_selection) ==
    LET start == (page - 1) * items_per_page
        indices == [k \in 1..items_per_page |-> start + k - 1]
    IN
    IF title \notin DOMAIN menus
    THEN [error |-> "KeyError", embed |-> NoEmbed]
    ELSE LET options == menus[title].options IN
         IF \E k \in 1..items_per_page : ~IndexOk(options, indices[k])
         THEN [error |-> "IndexError", embed |-> NoEmbed]
         ELSE [error |-> "none",
               embed |->
                 [title |-> embed_title(title),
                  footer |-> state_string(page, title, allow_selection),
                  fields |-> IF allow_selection
                             THEN [k \in 1..items_per_page |->
                                     [name |-> indices[k] + 1,
                                      value |-> PyIndex(options, indices[k])]]
                             ELSE <<>>,
                  description |-> IF allow_selection THEN <<>>
                                  ELSE [k \in 1..items_per_page |->
                                          PyIndex(options, indices[k])]]]

\* ---------------------------------------------------------------------
\* The channel history
\* ---------------------------------------------------------------------
\* An entry of the history is a message with embeds, or a run of
\* consecutive messages without any embed. __find_menu passes over a
\* message without embeds whoever wrote it, so a run keeps only its length.
PlainRun(n) == [author |-> "any", embeds |-> <<>>, run |-> n]

EmbedMessage(author, embeds) == [author |-> author, embeds |-> embeds, run |-> 1]

IsPlain(m) == Len(m.embeds) = 0

\* a message without embeds arrives in the channel
PostPlain(log) ==
    IF Len(log) > 0 /\ IsPlain(log[Len(log)])
    THEN [log EXCEPT ![Len(log)].run = @ + 1]
    ELSE Append(log, PlainRun(1))

RemoveAt(log, i) == SubSeq(log, 1, i - 1) \o SubSeq(log, i + 1, Len(log))

\* the message with embeds at entry i is deleted; the runs around it join
DeleteEmbedAt(log, i) ==
    IF 1 < i /\ i < Len(log) /\ IsPlain(log[i - 1]) /\ IsPlain(log[i + 1])
    THEN SubSeq(log, 1, i - 2)
         \o <<PlainRun(log[i - 1].run + log[i + 1].run)>>
         \o SubSeq(log, i + 2, Len(log))
    ELSE RemoveAt(log, i)

\* one message of the run at entry i is deleted
DeletePlainAt(log, i) ==
    IF log[i].run > 1 THEN [log EXCEPT ![i].run = @ - 1]
    ELSE RemoveAt(log, i)

NotFound == [outcome |-> "None", idx |-> 0, page |-> 0, list |-> <<>>,
             allow_selection |-> FALSE]

NotSearched == [NotFound EXCEPT !.outcome = "unused"]

\* the footer of the menu message at entry i, decoded to d
Decoded(i, d) ==
    IF d.match
    THEN [outcome |-> "found", idx |-> i, page |-> d.page, list |-> d.list,
          allow_selection |-> d.allow_selection]
    ELSE [NotFound EXCEPT !.outcome = "SyntaxError"]

\* the async for of __find_menu over logs_from(channel, limit, before):
\* entry i downwards, budget messages left of the limit. outcome is
\* "found", "None" (the loop ends, the function returns None),
\* "SyntaxError" (footer rejected) or "UnboundLocalError" (the return
\* statement reached with page, list and allow_selection never assigned)
RECURSIVE ScanFrom(_, _, _)
ScanFrom(log, i, budget) ==
    IF i = 0 \/ budget <= 0 THEN NotFound
    ELSE IF log[i].author = BotUser /\ Len(log[i].embeds) = 1
         THEN IF StartsWith(log[i].embeds[1].title, title_prefix)
              THEN Decoded(i, state_regex_fullmatch(log[i].embeds[1].footer))
              ELSE [NotFound EXCEPT !.outcome = "UnboundLocalError"]
         ELSE ScanFrom(log, i - 1, budget - log[i].run)

\* __find_menu(message): message is the newest message of the run at
\* entry trig, so the run's other messages are the first ones scanned
find_menu(log, trig) ==
    ScanFrom(log, trig - 1, history_limit - (log[trig].run - 1))

\* ---------------------------------------------------------------------
\* Callables and their attributes
\* ---------------------------------------------------------------------
\* the attributes owner_only / permissions_required set on a callable;
\* has is the set of attributes present (hasattr)
NoAttrs == [has |-> {}, bot_owner |-> FALSE, permissions_required |-> <<>>,
            check_failed |-> ""]

default_check_failed == "Permission check failed"

Wrapper(h, attrs) == [kind |-> "wrapper", handler |-> h, attrs |-> attrs,
                      menu |-> <<>>, allow_selection |-> FALSE]

Original(h) == [kind |-> "function", handler |-> h, attrs |-> NoAttrs,
                menu |-> <<>>, allow_selection |-> FALSE]

ActivateMenu(identifier, sel) ==
    [kind |-> "menu", handler |-> "activate_menu", attrs |-> NoAttrs,
     menu |-> identifier, allow_selection |-> sel]

NoCallable == [kind |-> "none", handler |-> "", attrs |-> NoAttrs,
               menu |-> <<>>, allow_selection |-> FALSE]

\* the attributes of a registered callable: a wrapper has its own
\* __dict__, the original function is the object the decorators wrote to
AttrsOf(c, fs) == IF c.kind = "function" THEN fs[c.handler] ELSE c.attrs

\* ---------------------------------------------------------------------
\* One dispatch: what it did to the transport
\* ---------------------------------------------------------------------
Text(kind, tmpl, name, mention) ==
    [kind |-> kind, tmpl |-> tmpl, name |-> name, mention |-> mention]

\* the state one dispatch works on: the channel history, the position of
\* the triggering message in it, and the calls made so far
World(log, trig) ==
    [log |-> log, trig |-> trig, sent |-> <<>>, checks |-> <<>>,
     invoked |-> <<>>, selected |-> <<>>, edited |-> <<>>,
     deleted |-> <<>>, found |-> NotSearched, raised |-> "none",
     parsed |-> "skipped", callable |-> NoCallable, attrs |-> NoAttrs,
     called |-> FALSE]

Raise(w, e) == [w EXCEPT !.raised = e]

\* send_message(message.channel, text)
SendChannel(w, text) ==
    [w EXCEPT !.sent = Append(@, [to |-> "channel", text |-> text]),
              !.log = PostPlain(@)]

\* send_message(user, text): a private message, not part of the channel
SendUser(w, user, text) ==
    [w EXCEPT !.sent = Append(@, [to |-> user, text |-> text])]

\* send_message(message.channel, embed=embed)
SendEmbed(w, embed) ==
    [w EXCEPT !.sent = Append(@, [to |-> "channel",
                                  text |-> Text("embed", "", "", "")]),
              !.log = Append(@, EmbedMessage(BotUser, <<embed>>))]

\* edit_message(menu, embed=new_embed)
EditMessage(w, idx, embed) ==
    [w EXCEPT !.log[idx].embeds = <<embed>>, !.edited = Append(@, idx)]

\* delete_message(message)
DeleteTrigger(w) ==
    [w EXCEPT !.log = DeletePlainAt(@, w.trig),
              !.deleted = Append(@, "trigger")]

\* delete_messages([message, menu]) and delete_messages([menu, message])
DeleteBoth(w, idx) ==
    [w EXCEPT !.log = DeleteEmbedAt(DeletePlainAt(@, w.trig), idx),
              !.deleted = @ \o <<"trigger", "menu">>]

\* ---------------------------------------------------------------------
\* The permission pipeline
\* ---------------------------------------------------------------------
\* index of the first flag of perms that getattr fails on or finds False,
\* 0 if the author holds them all
FirstFailing(perms, author) ==
    LET bad(i) == perms[i] \notin KnownFlags \/ perms[i] \notin HeldFlags(author)
    IN  IF \E i \in 1..Len(perms) : bad(i)
        THEN CHOOSE i \in 1..Len(perms) :
                bad(i) /\ \A j \in 1..(i - 1) : ~bad(j)
        ELSE 0

\* the loop of check_permissions stopped at flag i (0: every flag held)
FlagChecked(w1, attrs, author, i) ==
    IF i = 0 THEN [w |-> w1, result |-> TRUE]
    ELSE IF attrs.permissions_required[i] \notin KnownFlags
    THEN [w |-> w1, result |-> TRUE]
    ELSE IF "check_failed" \notin attrs.has THEN [w |-> w1, result |-> TRUE]
    ELSE [w |-> SendChannel(w1, Text("check_failed", attrs.check_failed,
                                     Nick(author), Mention(author))),
          result |-> FALSE]

\* check_permissions(command, message). Every AttributeError inside the
\* try (no permissions_required on the command, no server_permissions on
\* the author, no such flag on the Permissions object, no check_failed on
\* the command) ends in "return True"
check_permissions(w, attrs, author) ==
    IF \/ "permissions_required" \notin attrs.has
       \/ Len(attrs.permissions_required) = 0
       \/ ~IsMember(author)
    THEN [w |-> [w EXCEPT !.checks = Append(@, "check_permissions")],
          result |-> TRUE]
    ELSE FlagChecked([w EXCEPT !.checks = Append(@, "check_permissions")],
                     attrs, author,
                     FirstFailing(attrs.permissions_required, author))

\* check_owner(command, message). message.author is compared with the
\* class attribute discord.AppInfo.owner. A command whose bot_owner is
\* falsy falls off the end: None, which process_message takes as a failure
check_owner(w, attrs, author) ==
    IF "bot_owner" \notin attrs.has
    THEN [w |-> [w EXCEPT !.checks = Append(@, "check_owner")],
          result |-> TRUE]
    ELSE IF attrs.bot_owner
         THEN IF author = AppInfoOwnerAttr
              THEN [w |-> [w EXCEPT !.checks = Append(@, "check_owner")],
                    result |-> TRUE]
              ELSE [w |-> SendChannel(
                            [w EXCEPT !.checks = Append(@, "check_owner")],
                            Text("owner_only", "", "", Mention(author))),
                    result |-> FALSE]
         ELSE [w |-> [w EXCEPT !.checks = Append(@, "check_owner")],
               result |-> FALSE]

\* self.permission_checks
permission_checks == <<"check_permissions", "check_owner">>

RunCheck(name, w, attrs, author) ==
    IF name = "check_permissions" THEN check_permissions(w, attrs, author)
    ELSE check_owner(w, attrs, author)

\* the for loop of process_message over permission_checks from check k
\* on: every check is awaited, passed only records a failure. r is the
\* outcome of check k
RECURSIVE RunChecks(_, _, _, _, _)
RECURSIVE AfterCheck(_, _, _, _, _)
AfterCheck(k, r, passed, attrs, author) ==
    RunChecks(k + 1, r.w, passed /\ r.result, attrs, author)

RunChecks(k, w, passed, attrs, author) ==
    IF k > Len(permission_checks) THEN [w |-> w, passed |-> passed]
    ELSE AfterCheck(k, RunCheck(permission_checks[k], w, attrs, author),
                    passed, attrs, author)

\* ---------------------------------------------------------------------
\* Handlers
\* ---------------------------------------------------------------------
\* "page, list, allow_selection = await self.__find_menu(message)", the
\* first statement of page, select and dismiss
Locate(w) == [w EXCEPT !.found = find_menu(w.log, w.trig)]

\* the unpacking of what __find_menu returned: None cannot be unpacked
Unpacked(w) ==
    CASE w.found.outcome = "None" -> Raise(w, "TypeError")
      [] w.found.outcome \in {"SyntaxError", "UnboundLocalError"} ->
             Raise(w, w.found.outcome)
      [] OTHER -> w

\* page edits the menu message with the embed e it built
PageRendered(w, e) ==
    IF e.error # "none" THEN Raise(w, e.error)
    ELSE DeleteTrigger(EditMessage(w, w.found.idx, e.embed))

\* page after __find_menu
PageFound(w, menus, number_of_pages) ==
    IF w.found.outcome # "found" THEN Unpacked(w)
    ELSE PageRendered(w, create_embed_menu(menus, w.found.list,
                                           w.found.page + number_of_pages,
                                           w.found.allow_selection))

\* page(message, number_of_pages), the body of next and back
page(w, menus, number_of_pages) ==
    PageFound(Locate(w), menus, number_of_pages)

\* select without its test of allow_selection
SelectFound_Unguarded(w, menus, choice) ==
    IF w.found.outcome # "found" THEN Unpacked(w)
    ELSE IF 0 <= choice /\ choice < Len(w.found.list)
    THEN IF w.found.list \notin DOMAIN menus THEN Raise(w, "KeyError")
         ELSE IF ~IndexOk(menus[w.found.list].options, choice)
         THEN Raise(w, "IndexError")
         ELSE IF ~menus[w.found.list].has_handler
         THEN Raise(w, "KeyError")
         ELSE DeleteBoth(
                [w EXCEPT !.selected =
                    Append(@, [handler |-> menus[w.found.list].handler,
                               selection |->
                                 PyIndex(menus[w.found.list].options,
                                         choice)])],
                w.found.idx)
    ELSE w

\* select after __find_menu
SelectFound(w, menus, choice) ==
    IF w.found.outcome # "found" THEN Unpacked(w)
    ELSE IF ~w.found.allow_selection THEN Raise(w, "SyntaxError")
    ELSE IF 0 <= choice /\ choice < Len(w.found.list)
    THEN IF w.found.list \notin DOMAIN menus THEN Raise(w, "KeyError")
         ELSE IF ~IndexOk(menus[w.found.list].options, choice)
         THEN Raise(w, "IndexError")
         ELSE IF ~menus[w.found.list].has_handler
         THEN Raise(w, "KeyError")
         ELSE DeleteBoth(
                [w EXCEPT !.selected =
                    Append(@, [handler |-> menus[w.found.list].handler,
                               selection |->
                                 PyIndex(menus[w.found.list].options,
                                         choice)])],
                w.found.idx)
    ELSE w

\* select(message, choice); choice is compared with len(list), the
\* length of the menu's name
select(w, menus, choice) == SelectFound(Locate(w), menus, choice)

\* dismiss after __find_menu
DismissFound(w) ==
    IF w.found.outcome # "found" THEN Unpacked(w)
    ELSE DeleteBoth(w, w.found.idx)

\* dismiss(message)
dismiss(w) == DismissFound(Locate(w))

\* activate_menu sends the embed e it built
MenuRendered(w, e) ==
    IF e.error # "none" THEN Raise(w, e.error)
    ELSE DeleteTrigger(SendEmbed(w, e.embed))

\* activate_menu(message, parsed_args) of a registered menu
activate_menu(w, menus, identifier, allow_selection) ==
    MenuRendered(w, create_embed_menu(menus, identifier, 1, allow_selection))

\* a user handler runs: its call is recorded with the way the arguments
\* reached it
Invoke(w, h, style, args) ==
    [w EXCEPT !.invoked = Append(@, [handler |-> h, style |-> style,
                                     args |-> args])]

\* command(message, **vars(parsed_args)) of wrapped_command
CallOriginal(w, h, dict_args, menus) ==
    CASE h = "next" -> page(w, menus, 1)
      [] h = "back" -> page(w, menus, 0 - 1)
      [] h = "select" -> select(w, menus, dict_args["choice"])
      [] h = "dismiss" -> dismiss(w)
      [] OTHER -> Invoke(w, h, "keywords", dict_args)

\* wrapped_command(message, parsed_args): del parsed_args.command, then
\* command(message, **vars(parsed_args))
wrapped_command(w, h, ns, menus) ==
    CallOriginal(w, h, [k \in (DOMAIN ns) \ {"command"} |-> ns[k]], menus)

\* "await command(message, parsed_args)" of process_message for the
\* callable c found in self.commands. The original function takes the
\* Namespace as its second positional argument, which binds only when it
\* declares exactly one parameter besides the message
CallCommand(w, c, ns, menus) ==
    CASE c.kind = "wrapper" -> wrapped_command(w, c.handler, ns, menus)
      [] c.kind = "function" ->
             IF Len(Parameters(c.handler)) # 1 THEN Raise(w, "TypeError")
             ELSE Invoke(w, c.handler, "positional", ns)
      [] c.kind = "menu" ->
             activate_menu(w, menus, c.menu, c.allow_selection)

\* the except clause of process_message around the awaited command: a
\* SyntaxError becomes a private message to the author
Returned(w, author) ==
    IF w.raised = "SyntaxError"
    THEN SendUser([w EXCEPT !.raised = "none"], author,
                  Text("error", "", "", ""))
    ELSE w

\* process_message after the loop over permission_checks
Checked(r, author, c, ns, menus) ==
    IF ~r.passed THEN r.w
    ELSE Returned(CallCommand([r.w EXCEPT !.called = TRUE], c, ns, menus),
                  author)

\* process_message with the command c found in self.commands
Resolved(w, author, c, ns, fs, menus) ==
    Checked(RunChecks(1, [w EXCEPT !.callable = c, !.attrs = AttrsOf(c, fs)],
                      TRUE, AttrsOf(c, fs), author),
            author, c, ns, menus)

\* process_message after parse_args returned p
Parsed(w, author, p, cmds, fs, menus) ==
    IF p.status = "SyntaxError"
    THEN SendUser([w EXCEPT !.parsed = p.status], author,
                  Text("usage", "", "", ""))
    ELSE IF p.status = "SystemExit"
    THEN Raise([w EXCEPT !.parsed = p.status], "SystemExit")
    ELSE IF p.ns["command"] \notin DOMAIN cmds
    THEN [w EXCEPT !.parsed = p.status]
    ELSE Resolved([w EXCEPT !.parsed = p.status], author,
                  cmds[p.ns["command"]], p.ns, fs, menus)

\* process_message after split(message_no_prefix)
Separated(w, author, message_seperated, cmds, fs, gr, menus) ==
    IF ~message_seperated.ok
    THEN Raise([w EXCEPT !.parsed = "ValueError"], "ValueError")
    ELSE Parsed(w, author, parse_args(message_seperated.tokens, gr), cmds,
                fs, menus)

\* process_message without its test of the author
process_message_AnyAuthor(w, author, content, cmds, fs, gr, menus) ==
    IF ~StartsWith(content, prefix) THEN w
    ELSE Separated(w, author, split(LStrip(content, prefix)), cmds, fs, gr,
                   menus)

\* process_message(message)
process_message(w, author, content, cmds, fs, gr, menus) ==
    IF author = BotUser THEN w
    ELSE IF ~StartsWith(content, prefix) THEN w
    ELSE Separated(w, author, split(LStrip(content, prefix)), cmds, fs, gr,
                   menus)

\* on_message(message): self.process_message(self, message) passes the
\* bot twice, so the call itself is a TypeError and no dispatch starts
on_message(w, author, content, cmds, fs, gr, menus) ==
    Raise(w, "TypeError")

\* ---------------------------------------------------------------------
\* Registration
\* ---------------------------------------------------------------------
\* admin()'s default_message
admin_default_message == "{mention} that command requires admin privilges."

\* the (permissions, check_failed) pairs handlers get decorated with:
\* admin(), and a permissions_required call with the default message
\* that names a flag Permissions has no attribute for
PermissionArgs ==
    { [permissions |-> <<"administrator">>,
       check_failed |-> admin_default_message],
      [permissions |-> <<"manage_messages", "bogus_flag">>,
       check_failed |-> default_check_failed] }

\* command.bot_owner = True
SetOwner(attrs) ==
    [attrs EXCEPT !.has = @ \cup {"bot_owner"}, !.bot_owner = TRUE]

\* command.permissions_required = permissions;
\* command.check_failed = check_failed
SetPermissions(attrs, a) ==
    [attrs EXCEPT !.has = @ \cup {"permissions_required", "check_failed"},
                  !.permissions_required = a.permissions,
                  !.check_failed = a.check_failed]

\* mirrorAttr(source, dest, attr) as far as its return value goes: the
\* source (the original function) when the source has the attribute,
\* otherwise whatever wrapped_command currently is. cur is "wrapper" or
\* "function"
mirrorAttr(cur, source_attrs, attr) ==
    IF attr \in source_attrs.has THEN "function" ELSE cur

\* the callable command() stores and returns for handler h: the value of
\* wrapped_command after the three mirrorAttr assignments. The wrapper
\* starts with a copy of the function's __dict__ (functools.wraps)
RegisteredCallable(h, fs) ==
    LET w1 == mirrorAttr("wrapper", fs[h], "bot_owner")
        w2 == mirrorAttr(w1, fs[h], "check_failed")
        w3 == mirrorAttr(w2, fs[h], "permissions_required")
    IN  IF w3 = "function" THEN Original(h) ELSE Wrapper(h, fs[h])

\* f with key k set to v
Store(f, k, v) == [x \in (DOMAIN f) \cup {k} |-> IF x = k THEN v ELSE f[x]]

BuiltinNames == {nm.next, nm.back, nm.select, nm.dismiss}

BuiltinOf(n) == CHOOSE h \in BuiltinHandlers : FunctionName(h) = n

\* ---------------------------------------------------------------------
\* State
\* ---------------------------------------------------------------------
VARIABLES funcs, commands, sub_parsers, menus, log, posted, last, probe,
          tasks

vars == <<funcs, commands, sub_parsers, menus, log, posted, last, probe,
          tasks>>

\* what the latest dispatch was given and what it did
Trace(entry, author, content, w) ==
    [entry |-> entry, author |-> author, content |-> content,
     sent |-> w.sent, checks |-> w.checks, invoked |-> w.invoked,
     selected |-> w.selected, edited |-> w.edited, deleted |-> w.deleted,
     found |-> w.found, fault |-> w.raised, parsed |-> w.parsed,
     callable |-> w.callable, attrs |-> w.attrs, called |-> w.called]

NoMenus == [n \in {} |-> [options |-> <<>>, has_handler |-> FALSE,
                          handler |-> ""]]

\* the footer round trip under test: the state given to the encoder, the
\* footer it produced and what the state regex made of it
NoProbe == [stage |-> "idle", page |-> 1, list |-> <<>>,
            allow_selection |-> FALSE, footer |-> <<>>,
            decoded |-> state_regex_fullmatch(<<>>)]

\* the dispatches in flight: none while messages are handled one by one
NoTasks == [t \in {} |-> [pc |-> "done"]]

\* Bot.__init__: the four builtins are registered, nothing else
Init ==
    /\ funcs = [h \in Handlers |-> NoAttrs]
    /\ commands = [n \in BuiltinNames |-> Wrapper(BuiltinOf(n), NoAttrs)]
    /\ sub_parsers = [n \in BuiltinNames |-> Parameters(BuiltinOf(n))]
    /\ menus = NoMenus
    /\ log = <<>>
    /\ posted = 0
    /\ last = Trace("none", "bot", <<>>, World(<<>>, 0))
    /\ probe = NoProbe
    /\ tasks = NoTasks

\* ---------------------------------------------------------------------
\* Inputs
\* ---------------------------------------------------------------------
\* name= of command(): empty stands for None
NameArgs == {<<>>}

\* message.content of the messages users post, by what they say
txt ==
    [ping |-> <<"!", "p", "i", "n", "g">>,
     add_2 |-> <<"!", "a", "d", "d", " ", "2">>,
     add_x |-> <<"!", "a", "d", "d", " ", "x">>,
     add |-> <<"!", "a", "d", "d">>,
     add_2_3 |-> <<"!", "a", "d", "d", " ", "2", " ", "3">>,
     zap |-> <<"!", "z", "a", "p">>,
     ping_z |-> <<"!", "p", "i", "n", "g", " ", "-", "z">>,
     ping_h |-> <<"!", "p", "i", "n", "g", " ", "-", "h">>,
     ping_quote |-> <<"!", "p", "i", "n", "g", " ", "\"", "a">>,
     plain_ping |-> <<"p", "i", "n", "g">>,
     bang |-> <<"!">>,
     bang_ping |-> <<"!", "!", "p", "i", "n", "g">>,
     next |-> <<"!", "n", "e", "x", "t">>,
     back |-> <<"!", "b", "a", "c", "k">>,
     dismiss |-> <<"!", "d", "i", "s", "m", "i", "s", "s">>,
     select_2 |-> <<"!", "s", "e", "l", "e", "c", "t", " ", "2">>,
     select_7 |-> <<"!", "s", "e", "l", "e", "c", "t", " ", "7">>,
     fruits |-> <<"!", "f", "r", "u", "i", "t", "s">>,
     colors |-> <<"!", "c", "o", "l", "o", "r", "s">>,
     rules |-> <<"!", "r", "u", "l", "e", "s">>,
     tools |-> <<"!", "t", "o", "o", "l", "s">>]

\* message.content of the inbound messages
Contents == {txt.ping, txt.add_2, txt.add_x, txt.add, txt.add_2_3, txt.zap,
             txt.ping_z, txt.ping_h, txt.ping_quote, txt.plain_ping,
             txt.bang, txt.bang_ping, txt.next}

\* the inbound messages as (author, content): every author sends the two
\* well-formed commands, one member sends every text
Inbound == (Users \X {txt.ping, txt.add_2}) \cup ({"alice"} \X Contents)

\* ---------------------------------------------------------------------
\* Actions
\* ---------------------------------------------------------------------
\* Registration happens at startup, before the event stream is processed,
\* so the registering actions are enabled only while posted = 0.

\* the callables a decorator can be handed: a handler function not yet
\* replaced by a wrapper, or the wrapper command() returned for it
Decoratable ==
    { [kind |-> "function", handler |-> h, name |-> <<>>] :
        h \in { g \in Handlers :
                  ~(FunctionName(g) \in DOMAIN commands
                    /\ commands[FunctionName(g)].kind = "wrapper") } }
    \cup
    { [kind |-> "wrapper", handler |-> commands[n].handler, name |-> n] :
        n \in { k \in DOMAIN commands :
                  commands[k].kind = "wrapper"
                  /\ commands[k].handler \in Handlers } }

\* owner_only(command)
OwnerOnly(obj) ==
    /\ posted = 0
    /\ obj \in Decoratable
    /\ IF obj.kind = "function"
       THEN /\ funcs' = [funcs EXCEPT ![obj.handler] = SetOwner(@)]
            /\ UNCHANGED commands
       ELSE /\ commands' = [commands EXCEPT ![obj.name].attrs = SetOwner(@)]
            /\ UNCHANGED funcs
    /\ UNCHANGED <<sub_parsers, menus, log, posted, last, probe, tasks>>

\* permissions_required(command, permissions, check_failed), also
\* through admin()
PermissionsRequired(obj, a) ==
    /\ posted = 0
    /\ obj \in Decoratable
    /\ IF obj.kind = "function"
       THEN /\ funcs' = [funcs EXCEPT ![obj.handler] = SetPermissions(@, a)]
            /\ UNCHANGED commands
       ELSE /\ commands' = [commands EXCEPT
                               ![obj.name].attrs = SetPermissions(@, a)]
            /\ UNCHANGED funcs
    /\ UNCHANGED <<sub_parsers, menus, log, posted, last, probe, tasks>>

\* command(command, name): __parse_parameters adds the sub-parser, then
\* the callable is stored under the name
Command(h, name) ==
    LET n == IF Len(name) = 0 THEN FunctionName(h) ELSE name IN
    /\ posted = 0
    /\ n \notin DOMAIN commands
    /\ sub_parsers' = Store(sub_parsers, n, Parameters(h))
    /\ commands' = Store(commands, n, RegisteredCallable(h, funcs))
    /\ UNCHANGED <<funcs, menus, log, posted, last, probe, tasks>>

\* the channel with the new message in it, which is the trigger
Arrival(log1) == World(log1, Len(log1))

\* the dispatch ended in world w: the channel and the record of the
\* dispatch are what it left
Delivered(entry, author, content, w) ==
    /\ log' = w.log
    /\ last' = Trace(entry, author, content, w)

\* the transport delivers a message authored by author to on_message
OnMessage(author, content) ==
    /\ posted < MaxPosts
    /\ Delivered("on_message", author, content,
                 on_message(Arrival(PostPlain(log)), author, content,
                            commands, funcs, sub_parsers, menus))
    /\ posted' = posted + 1
    /\ UNCHANGED <<funcs, commands, sub_parsers, menus, probe, tasks>>

\* process_message is awaited for a message authored by author
ProcessMessage(author, content) ==
    /\ posted < MaxPosts
    /\ Delivered("process_message", author, content,
                 process_message(Arrival(PostPlain(log)), author, content,
                                 commands, funcs, sub_parsers, menus))
    /\ posted' = posted + 1
    /\ UNCHANGED <<funcs, commands, sub_parsers, menus, probe, tasks>>

Next ==
    \/ \E obj \in Decoratable : OwnerOnly(obj)
    \/ \E obj \in Decoratable, a \in PermissionArgs : PermissionsRequired(obj, a)
    \/ \E h \in Handlers, name \in NameArgs : Command(h, name)
    \/ \E m \in Inbound : OnMessage(m[1], m[2])
    \/ \E m \in Inbound : ProcessMessage(m[1], m[2])

Spec == Init /\ [][Next]_vars

\* ---------------------------------------------------------------------
\* Menus: registration and the navigation of rendered menus
\* ---------------------------------------------------------------------
fruit_options == <<"apple", "banana", "cherry", "date", "egg">>
color_options == <<"red", "orange", "yellow", "green", "blue",
                   "indigo", "violet", "black", "white", "grey">>
rule_options == <<"be kind", "no spam", "stay on topic", "no ads", "have fun">>

\* the arguments of the menu_command calls made at startup. name is empty
\* when name= is left None; function is the decorated selection handler
\* and function_name its __name__
MenuArgs ==
    { [options |-> fruit_options, allow_selection |-> TRUE,
       name |-> nm.fruits, function |-> "pick", function_name |-> nm.fruits],
      [options |-> color_options, allow_selection |-> TRUE,
       name |-> nm.colors, function |-> "paint", function_name |-> nm.colors],
      [options |-> fruit_options, allow_selection |-> TRUE,
       name |-> <<>>, function |-> "use", function_name |-> nm.tools],
      [options |-> rule_options, allow_selection |-> FALSE,
       name |-> nm.rules, function |-> "", function_name |-> <<>>] }

\* the key __menus is written under: the name argument itself, None
\* included
MenuKey(a) == IF Len(a.name) = 0 THEN None ELSE a.name

\* the name the sub-parser and the activation command are stored under
MenuIdentifier(a) ==
    IF a.allow_selection /\ Len(a.name) = 0 THEN a.function_name ELSE a.name

\* the entry __register_select_menu / __register_no_select_menu write
MenuEntry(a) ==
    [options |-> a.options, has_handler |-> a.allow_selection,
     handler |-> a.function]

\* menu_command(menu_options, allow_selection, name, help), with the
\* decorator it returns applied to the selection handler
MenuCommand(a) ==
    /\ posted = 0
    /\ MenuIdentifier(a) \notin DOMAIN commands
    /\ sub_parsers' = Store(sub_parsers, MenuIdentifier(a), <<>>)
    /\ menus' = Store(menus, MenuKey(a), MenuEntry(a))
    /\ commands' = Store(commands, MenuIdentifier(a),
                         ActivateMenu(MenuIdentifier(a), a.allow_selection))
    /\ UNCHANGED <<funcs, log, posted, last, probe, tasks>>


MenuContents == {txt.fruits, txt.colors, txt.rules, txt.tools, txt.next,
                 txt.back, txt.dismiss, txt.select_2, txt.select_7}

\* a menu message the bot rendered earlier
Rendered(title, pg, sel) ==
    EmbedMessage(BotUser,
                 <<[title |-> embed_title(title),
                    footer |-> state_string(pg, title, sel),
                    fields |-> <<>>, description |-> <<>>]>>)

other_title == <<"N", "e", "w", "s">>

\* a message with one embed that is no menu
Card(author) ==
    EmbedMessage(author, <<[title |-> other_title, footer |-> <<>>,
                            fields |-> <<>>, description |-> <<>>]>>)

\* a menu-like embed posted by somebody else
Forged(author, title) == [Rendered(title, 1, TRUE) EXCEPT !.author = author]

\* a bot message with two embeds, the first one a menu's
TwoEmbeds(title) ==
    [Rendered(title, 1, TRUE) EXCEPT
        !.embeds = @ \o <<[title |-> other_title, footer |-> <<>>,
                           fields |-> <<>>, description |-> <<>>]>>]

\* the channel as the bot finds it when it starts
Histories ==
    { <<>>,
      <<PlainRun(2)>>,
      <<Rendered(nm.fruits, 1, TRUE)>>,
      <<Rendered(nm.colors, 1, TRUE), PlainRun(history_limit - 1)>>,
      <<Rendered(nm.colors, 1, TRUE), PlainRun(history_limit)>>,
      <<Rendered(nm.colors, 2, TRUE), Forged("alice", nm.fruits)>>,
      <<Rendered(nm.colors, 1, TRUE), TwoEmbeds(nm.fruits), PlainRun(1)>>,
      <<Rendered(nm.fruits, 1, TRUE), Card(BotUser)>>,
      <<Rendered(nm.rules, 1, FALSE), Card("alice")>>,
      <<Rendered(nm.colors, 0, TRUE), Card(BotUser)>> }

InitMenu ==
    /\ funcs = [h \in Handlers |-> NoAttrs]
    /\ commands = [n \in BuiltinNames |-> Wrapper(BuiltinOf(n), NoAttrs)]
    /\ sub_parsers = [n \in BuiltinNames |-> Parameters(BuiltinOf(n))]
    /\ menus = NoMenus
    /\ log \in Histories
    /\ posted = 0
    /\ last = Trace("none", "bot", <<>>, World(<<>>, 0))
    /\ probe = NoProbe
    /\ tasks = NoTasks

\* process_message is awaited for a message of the menu conversation
MenuMessage(author, content) ==
    /\ posted < MaxMenuPosts
    /\ Delivered("process_message", author, content,
                 process_message(Arrival(PostPlain(log)), author, content,
                                 commands, funcs, sub_parsers, menus))
    /\ posted' = posted + 1
    /\ UNCHANGED <<funcs, commands, sub_parsers, menus, probe, tasks>>

NextMenu ==
    \/ \E a \in MenuArgs : MenuCommand(a)
    \/ \E content \in MenuContents : MenuMessage("alice", content)

SpecMenu == InitMenu /\ [][NextMenu]_vars

\* ---------------------------------------------------------------------
\* The footer round trip on its own
\* ---------------------------------------------------------------------
FooterNames == {nm.fruits, nm.rules, <<"A", "_", "z">>}

\* __create_embed_menu computes the footer of a state
EncodeFooter(pg, title, sel) ==
    /\ probe.stage = "idle"
    /\ probe' = [probe EXCEPT !.stage = "encoded", !.page = pg,
                              !.list = title, !.allow_selection = sel,
                              !.footer = state_string(pg, title, sel)]
    /\ UNCHANGED <<funcs, commands, sub_parsers, menus, log, posted, last,
                   tasks>>

\* __find_menu decodes that footer
DecodeFooter ==
    /\ probe.stage = "encoded"
    /\ probe' = [probe EXCEPT !.stage = "decoded",
                              !.decoded = state_regex_fullmatch(probe.footer)]
    /\ UNCHANGED <<funcs, commands, sub_parsers, menus, log, posted, last,
                   tasks>>

NextFooter ==
    \/ \E pg \in 1..MaxFooterPage, title \in FooterNames, sel \in BOOLEAN :
          EncodeFooter(pg, title, sel)
    \/ DecodeFooter

SpecFooter == Init /\ [][NextFooter]_vars

\* ---------------------------------------------------------------------
\* The grammar derived from a handler's signature
\* ---------------------------------------------------------------------
\* the signatures of the handlers handed to command(): the message, then
\* up to MaxParams parameters p1, p2, .. of any annotation
Signatures ==
    UNION { { <<Param("message", "Message")>>
              \o [i \in 1..n |-> Param(<<"p1", "p2", "p3", "p4">>[i], a[i])] :
              a \in [1..n -> {"int", "str", "empty", "True", "False",
                              "const"}] } :
            n \in 1..MaxParams }

\* command(f) for a function f named add with the given signature
CommandSignature(signature) ==
    /\ posted = 0
    /\ nm.add \notin DOMAIN commands
    /\ sub_parsers' = Store(sub_parsers, nm.add, parse_parameters(signature))
    /\ commands' = Store(commands, nm.add, RegisteredCallable("add", funcs))
    /\ probe' = [stage |-> "registered", signature |-> signature]
    /\ UNCHANGED <<funcs, menus, log, posted, last, tasks>>

NextGrammar == \E signature \in Signatures : CommandSignature(signature)

SpecGrammar == Init /\ [][NextGrammar]_vars

\* ---------------------------------------------------------------------
\* Two next dispatches in flight on the same menu
\* ---------------------------------------------------------------------
\* A dispatch of page() gives up control at its awaits: the history read
\* of __find_menu, edit_message and delete_message. Each await is one
\* request to the transport, so a dispatch moves in three steps and the
\* steps of two dispatches interleave freely.
Tasks == {"A", "B"}

\* the registry: one named menu with options behind every page the race
\* can render
RaceMenus ==
    Store(NoMenus, nm.colors,
          [options |-> [i \in 1..(items_per_page * (MaxRacePage + 2)) |->
                          "item"],
           has_handler |-> TRUE, handler |-> "paint"])

\* a dispatch of next at its start, triggered by the message at entry trig
StartTask(trig) ==
    [pc |-> "start", trig |-> trig, found |-> NotSearched, embed |-> NoEmbed,
     fault |-> "none"]

\* the menu at page pg, gap older messages, then the two triggers
InitRace ==
    /\ funcs = [h \in Handlers |-> NoAttrs]
    /\ commands = [n \in BuiltinNames |-> Wrapper(BuiltinOf(n), NoAttrs)]
    /\ sub_parsers = [n \in BuiltinNames |-> Parameters(BuiltinOf(n))]
    /\ menus = RaceMenus
    /\ \E pg \in 1..MaxRacePage, sel \in BOOLEAN,
          gap \in {1, history_limit - 2} :
          /\ log = <<Rendered(nm.colors, pg, sel), PlainRun(gap),
                     PlainRun(1), PlainRun(1)>>
          /\ probe = [NoProbe EXCEPT !.page = pg, !.list = nm.colors,
                                     !.allow_selection = sel]
    /\ posted = 0
    /\ last = Trace("none", "bot", <<>>, World(<<>>, 0))
    /\ tasks = [t \in Tasks |-> StartTask(IF t = "A" THEN 3 ELSE 4)]

\* the task after __find_menu returned r and, for a menu found,
\* __create_embed_menu returned e. A SyntaxError is caught by
\* process_message and sent to the author, any other exception escapes
AfterFind(task, r, e) ==
    CASE r.outcome = "SyntaxError" ->
             [task EXCEPT !.found = r, !.pc = "refused",
                          !.fault = "SyntaxError"]
      [] r.outcome = "None" ->
             [task EXCEPT !.found = r, !.pc = "faulted",
                          !.fault = "TypeError"]
      [] r.outcome = "UnboundLocalError" ->
             [task EXCEPT !.found = r, !.pc = "faulted",
                          !.fault = r.outcome]
      [] OTHER ->
             IF e.error # "none"
             THEN [task EXCEPT !.found = r, !.pc = "faulted",
                               !.fault = e.error]
             ELSE [task EXCEPT !.found = r, !.pc = "found",
                               !.embed = e.embed]

\* the first await of page(): the history is read, and the new embed is
\* built before control is given up again
PageFind(t) ==
    /\ tasks[t].pc = "start"
    /\ tasks' = [tasks EXCEPT ![t] =
                   AfterFind(@, find_menu(log, @.trig),
                             create_embed_menu(menus,
                                               find_menu(log, @.trig).list,
                                               find_menu(log, @.trig).page + 1,
                                               find_menu(log, @.trig)
                                                   .allow_selection))]
    /\ UNCHANGED <<funcs, commands, sub_parsers, menus, log, posted, last,
                   probe>>

\* await self.edit_message(menu, embed=new_embed)
PageEdit(t) ==
    /\ tasks[t].pc = "found"
    /\ log' = [log EXCEPT ![tasks[t].found.idx].embeds = <<tasks[t].embed>>]
    /\ tasks' = [tasks EXCEPT ![t].pc = "edited"]
    /\ UNCHANGED <<funcs, commands, sub_parsers, menus, posted, last, probe>>

\* await self.delete_message(message): the trigger's entry stays as an
\* empty run, so the positions the other dispatch holds remain valid
PageDelete(t) ==
    /\ tasks[t].pc = "edited"
    /\ log' = [log EXCEPT ![tasks[t].trig].run = 0]
    /\ tasks' = [tasks EXCEPT ![t].pc = "done"]
    /\ UNCHANGED <<funcs, commands, sub_parsers, menus, posted, last, probe>>

NextRace ==
    \/ \E t \in Tasks : PageFind(t)
    \/ \E t \in Tasks : PageEdit(t)
    \/ \E t \in Tasks : PageDelete(t)

SpecRace == InitRace /\ [][NextRace]_vars

\* ---------------------------------------------------------------------
\* Properties of the dispatcher
\* ---------------------------------------------------------------------
\* the text begins with the prefix and tokenizes to a registered user
\* command with valid arguments
WellFormedCommand(content) ==
    /\ StartsWith(content, prefix)
    /\ LET lexed == split(LStrip(content, prefix)) IN
       /\ lexed.ok
       /\ LET p == parse_args(lexed.tokens, sub_parsers) IN
          /\ p.status = "ok"
          /\ p.ns["command"] \in DOMAIN commands
          /\ commands[p.ns["command"]].handler \in Handlers

CommandOf(content) ==
    commands[parse_args(split(LStrip(content, prefix)).tokens,
                        sub_parsers).ns["command"]]

\* the invoker holds the flag in the server the message came from
Holds(author, flag) ==
    IsMember(author) /\ flag \in KnownFlags /\ flag \in HeldFlags(author)

HoldsAll(author, attrs) ==
    \A i \in 1..Len(attrs.permissions_required) :
        Holds(author, attrs.permissions_required[i])

\* no restriction the command declares excludes the author
Permitted(author, attrs) ==
    /\ "permissions_required" \in attrs.has => HoldsAll(author, attrs)
    /\ "bot_owner" \in attrs.has /\ attrs.bot_owner => author = AppOwner

ChannelTexts(kind) ==
    { i \in 1..Len(last.sent) :
        last.sent[i].to = "channel" /\ last.sent[i].text.kind = kind }

Denials == ChannelTexts("check_failed") \cup ChannelTexts("owner_only")

\* C1: a message delivered to on_message that is not the bot's, starts
\* with the prefix, tokenizes to a registered command with valid arguments
\* and passes every permission check gets exactly one handler invoked,
\* the one registered under that name, exactly once.
C1_OnMessageInvokesOnce ==
    ( /\ last.entry = "on_message"
      /\ last.author # BotUser
      /\ WellFormedCommand(last.content)
      /\ Permitted(last.author, AttrsOf(CommandOf(last.content), funcs)) )
    => /\ Len(last.invoked) = 1
       /\ last.invoked[1].handler = CommandOf(last.content).handler

\* C2: a command that declares permissions_required is invoked only if
\* the invoker holds every required flag, whoever the author is; on a
\* missing flag check_failed, formatted with the invoker's name and
\* mention, goes to the channel and the handler is not invoked.
C2_PermissionsGateHandler ==
    ( /\ last.entry = "process_message"
      /\ last.callable.kind # "none"
      /\ "permissions_required" \in last.attrs.has )
    => /\ Len(last.invoked) > 0 => HoldsAll(last.author, last.attrs)
       /\ ~HoldsAll(last.author, last.attrs) =>
            /\ Len(last.invoked) = 0
            /\ \E i \in ChannelTexts("check_failed") :
                 /\ last.sent[i].text.tmpl = last.attrs.check_failed
                 /\ last.sent[i].text.name \in {Nick(last.author), last.author}
                 /\ last.sent[i].text.mention = Mention(last.author)

\* C3: a command marked both owner-only and permissions-required, invoked
\* by a user who fails both, fails on the first check of the pipeline: no
\* later check runs, at most one denial is sent, the handler is not
\* invoked.
C3_FirstFailureStopsPipeline ==
    ( /\ last.entry = "process_message"
      /\ last.callable.kind # "none"
      /\ {"permissions_required", "bot_owner"} \subseteq last.attrs.has
      /\ last.attrs.bot_owner
      /\ ~HoldsAll(last.author, last.attrs)
      /\ last.author # AppOwner )
    => /\ last.checks = <<"check_permissions">>
       /\ Cardinality(Denials) <= 1
       /\ Len(last.invoked) = 0

\* C4: for an owner-only command the owner check passes, and the handler
\* is invoked, exactly when the invoker is the application's owner; every
\* other invoker gets the refusal in the channel and no handler call.
C4_OwnerCheckExact ==
    ( /\ last.entry = "process_message"
      /\ last.callable.kind # "none"
      /\ "bot_owner" \in last.attrs.has
      /\ last.attrs.bot_owner
      /\ "permissions_required" \notin last.attrs.has )
    => IF last.author = AppOwner
       THEN ChannelTexts("owner_only") = {} /\ last.called
       ELSE ChannelTexts("owner_only") # {} /\ Len(last.invoked) = 0

\* C5: whenever tokenizing or parsing a prefixed message fails, a
\* help+error message goes privately to the invoking user, nothing goes
\* to the channel, no handler is invoked and no exception escapes
\* process_message.
C5_ParseFailureRecovered ==
    ( /\ last.entry = "process_message"
      /\ last.parsed \in {"SyntaxError", "ValueError"} )
    => /\ last.fault = "none"
       /\ last.sent = <<[to |-> last.author, text |-> Text("usage", "", "", "")]>>
       /\ Len(last.invoked) = 0

\* C6: the callable stored for a handler registered through command(),
\* with or without metadata attached before, when called by dispatch
\* invokes the original handler with the context plus the parsed
\* arguments as named parameters, the command field removed.
C6_WrapperUnpacksArguments ==
    ( /\ last.entry = "process_message"
      /\ last.called
      /\ last.callable.handler \in Handlers )
    => /\ last.fault = "none"
       /\ Len(last.invoked) = 1
       /\ last.invoked[1].handler = last.callable.handler
       /\ last.invoked[1].style = "keywords"
       /\ "command" \notin DOMAIN last.invoked[1].args

\* ---------------------------------------------------------------------
\* Properties of the menu state machine
\* ---------------------------------------------------------------------
\* C7: with no qualifying menu among the 50 older messages, next, back,
\* select and dismiss are no-ops and no fault: nothing is edited or
\* deleted, no selection handler is called, no exception is raised.
C7_MenuNotFoundIsNoOp ==
    ( /\ last.entry = "process_message"
      /\ last.found.outcome = "None" )
    => /\ last.fault = "none"
       /\ last.edited = <<>>
       /\ last.deleted = <<>>
       /\ last.selected = <<>>

\* a menu message as the reconstruction is specified to look for it
Qualifies(m) ==
    /\ m.author = BotUser
    /\ Len(m.embeds) = 1
    /\ StartsWith(m.embeds[1].title, title_prefix)

\* number of messages of h newer than entry i and older than the newest
RECURSIVE NewerThan(_, _)
NewerThan(h, i) ==
    IF i >= Len(h) THEN 0 - 1
    ELSE h[i + 1].run + NewerThan(h, i + 1)

\* the entry the reconstruction is to return for the newest message of
\* h: the nearest qualifying one inside the window, 0 if there is none
Nearest(h) ==
    LET cands == { i \in 1..(Len(h) - 1) :
                     Qualifies(h[i]) /\ NewerThan(h, i) < history_limit }
    IN  IF cands = {} THEN 0
        ELSE CHOOSE i \in cands : \A j \in cands : j <= i

\* C8: for every channel history the reconstruction returns the most
\* recent qualifying menu message inside the 50-message window, passing
\* over every more recent message that does not qualify.
C8_NearestMenuFound ==
    [][ ( /\ posted' = posted + 1
          /\ last'.found.outcome # "unused" )
        => LET h == PostPlain(log) IN
           IF Nearest(h) = 0 THEN last'.found.outcome = "None"
           ELSE /\ last'.found.outcome \in {"found", "SyntaxError"}
                /\ last'.found.outcome = "found" =>
                     last'.found.idx = Nearest(h) ]_vars

\* C9: for every page >= 1, name in [a-zA-Z_]+ and selection mode, the
\* footer __create_embed_menu writes is decoded by the state regex to
\* the same page, name and mode.
C9_FooterRoundTrip ==
    probe.stage = "decoded"
    => /\ probe.decoded.match
       /\ probe.decoded.page = probe.page
       /\ probe.decoded.list = probe.list
       /\ probe.decoded.allow_selection = probe.allow_selection

\* C10: next (back) on a menu located at page p edits that message in
\* place to the footer of page p+1 (p-1) with the same name and mode,
\* sends nothing and deletes the triggering message, also when the
\* target page has no options behind it (the menu is a registered one).
C10_PageEditsInPlace ==
    ( /\ last.entry = "process_message"
      /\ last.content \in {txt.next, txt.back}
      /\ last.found.outcome = "found"
      /\ last.found.list \in DOMAIN menus )
    => /\ last.fault = "none"
       /\ last.edited = <<last.found.idx>>
       /\ last.sent = <<>>
       /\ last.deleted = <<"trigger">>
       /\ last.found.idx <= Len(log)
       /\ Len(log[last.found.idx].embeds) = 1
       /\ log[last.found.idx].embeds[1].footer =
            state_string(IF last.content = txt.next
                         THEN last.found.page + 1 ELSE last.found.page - 1,
                         last.found.list, last.found.allow_selection)

\* C11: invoking the activation command of a registered menu, selectable
\* or display-only, named or not, sends exactly one new message showing
\* page 1 with the footer of page 1, the menu's name and its configured
\* mode, edits nothing, and then deletes the triggering message.
C11_ActivationSendsPageOne ==
    ( /\ last.entry = "process_message"
      /\ last.callable.kind = "menu"
      /\ last.called )
    => /\ last.fault = "none"
       /\ last.sent = <<[to |-> "channel", text |-> Text("embed", "", "", "")]>>
       /\ last.edited = <<>>
       /\ last.deleted = <<"trigger">>
       /\ Len(log) > 0
       /\ Len(log[Len(log)].embeds) = 1
       /\ log[Len(log)].embeds[1].footer =
            state_string(1, last.callable.menu, last.callable.allow_selection)

\* the choice a select message carries
ChoiceOf(content) == ParseInt(Drop(content, Len(prefix \o nm.select) + 1))

IsSelect(content) == content \in {txt.select_2, txt.select_7}

\* C12: select(choice) on a located selection-enabled menu, for every
\* choice from 0 up to the number of options of that menu, invokes the
\* menu's selection handler exactly once with options[choice] and then
\* deletes both the triggering message and the menu message.
C12_SelectInvokesHandler ==
    ( /\ last.entry = "process_message"
      /\ IsSelect(last.content)
      /\ last.found.outcome = "found"
      /\ last.found.allow_selection
      /\ last.found.list \in DOMAIN menus
      /\ menus[last.found.list].has_handler
      /\ ChoiceOf(last.content) < Len(menus[last.found.list].options) )
    => /\ last.selected =
            <<[handler |-> menus[last.found.list].handler,
               selection |-> menus[last.found.list].options[
                                 ChoiceOf(last.content) + 1]]>>
       /\ last.deleted = <<"trigger", "menu">>

IsNavigation(content) ==
    content \in {txt.next, txt.back, txt.dismiss} \/ IsSelect(content)

\* the private message process_message makes of a caught SyntaxError
ErrorToAuthor == <<[to |-> last'.author, text |-> Text("error", "", "", "")]>>

\* the nearest qualifying menu message of history h carries a footer
\* the state grammar rejects
NearestCorrupt(h) ==
    /\ Nearest(h) # 0
    /\ ~state_regex_fullmatch(h[Nearest(h)].embeds[1].footer).match

\* C13: when the nearest qualifying menu message has a footer the state
\* grammar rejects, next, back, select and dismiss end with an error
\* message to the user; the menu message and the triggering message are
\* neither edited nor deleted and no selection handler is invoked.
C13_CorruptMenuSurfaced ==
    [][ ( /\ posted' = posted + 1
          /\ last'.entry = "process_message"
          /\ IsNavigation(last'.content)
          /\ NearestCorrupt(PostPlain(log)) )
        => /\ last'.fault = "none"
           /\ last'.sent = ErrorToAuthor
           /\ last'.edited = <<>>
           /\ last'.deleted = <<>>
           /\ last'.selected = <<>>
           /\ log' = PostPlain(log) ]_vars

\* C14: select on a located menu whose footer says selection is disabled
\* fails as an error before any side effect, for every choice: no
\* selection handler is invoked, neither the menu message nor the
\* triggering message is deleted or edited.
C14_SelectDisabledFails ==
    [][ ( /\ posted' = posted + 1
          /\ last'.entry = "process_message"
          /\ IsSelect(last'.content)
          /\ last'.found.outcome = "found"
          /\ ~last'.found.allow_selection )
        => /\ last'.sent = ErrorToAuthor
           /\ last'.selected = <<>>
           /\ last'.edited = <<>>
           /\ last'.deleted = <<>>
           /\ log' = PostPlain(log) ]_vars

\* select 7 was refused on the display-only menu rules, found at page 1
C14_Witness ==
    /\ last.entry = "process_message"
    /\ last.content = txt.select_7
    /\ last.found.outcome = "found"
    /\ last.found.list = nm.rules
    /\ ~last.found.allow_selection
    /\ nm.rules \in DOMAIN menus
    /\ last.sent = <<[to |-> last.author, text |-> Text("error", "", "", "")]>>

\* C15: process_message does nothing at all (nothing sent, no handler
\* invoked, no permission check run, nothing edited or deleted) for a
\* message the bot itself wrote or whose text does not begin with the
\* prefix.
C15_IgnoredMessagesNoAction ==
    [][ ( /\ posted' = posted + 1
          /\ last'.entry = "process_message"
          /\ \/ last'.author = BotUser
             \/ ~StartsWith(last'.content, prefix) )
        => /\ last'.sent = <<>>
           /\ last'.invoked = <<>>
           /\ last'.selected = <<>>
           /\ last'.checks = <<>>
           /\ last'.edited = <<>>
           /\ last'.deleted = <<>>
           /\ last'.fault = "none"
           /\ ~last'.called
           /\ log' = PostPlain(log) ]_vars

\* the bot's own !ping went through process_message with ping registered
C15_Witness ==
    /\ last.entry = "process_message"
    /\ last.author = BotUser
    /\ last.content = txt.ping
    /\ nm.ping \in DOMAIN commands
    /\ last.invoked = <<>>

\* C16: in every state reached by menu activations and next/back
\* navigations, every menu message of the bot carries a footer that
\* fullmatches the state grammar and decodes to a page n >= 1.
C16_RenderedFootersDecode ==
    ( /\ last.entry = "process_message"
      /\ last.content \in {txt.next, txt.back}
      /\ last.edited # <<>> )
    => \A i \in 1..Len(log) :
         Qualifies(log[i]) /\ i = last.found.idx =>
           /\ state_regex_fullmatch(log[i].embeds[1].footer).match
           /\ state_regex_fullmatch(log[i].embeds[1].footer).page >= 1

\* ---------------------------------------------------------------------
\* Properties of dispatches in flight
\* ---------------------------------------------------------------------
\* no step is left to either dispatch
RaceOver == \A t \in Tasks : tasks[t].pc \in {"done", "refused", "faulted"}

\* C17: under every interleaving of two next dispatches on the same menu
\* at page p, pages p+1 and p+2 both having options, neither dispatch
\* faults, each reads the footer afresh at its start, the final footer is
\* the encoding of page p+1 or p+2, and both triggers end up deleted.
C17_RacingNextLastWriterWins ==
    /\ \A t \in Tasks :
         /\ tasks[t].pc \notin {"refused", "faulted"}
         /\ tasks[t].pc # "start" =>
              tasks[t].found.page \in {probe.page, probe.page + 1}
    /\ RaceOver =>
         /\ log[1].embeds[1].footer \in
              { state_string(probe.page + d, probe.list,
                             probe.allow_selection) : d \in {1, 2} }
         /\ \A t \in Tasks : log[tasks[t].trig].run = 0

\* ---------------------------------------------------------------------
\* Properties of the command text
\* ---------------------------------------------------------------------
\* the first shell token of the text left when one leading occurrence of
\* the prefix is removed; empty when there is none
FirstToken(content) ==
    IF split(Drop(content, Len(prefix))).ok
       /\ Len(split(Drop(content, Len(prefix))).tokens) > 0
    THEN split(Drop(content, Len(prefix))).tokens[1]
    ELSE <<>>

\* C18: process_message removes exactly one leading occurrence of the
\* prefix and resolves the first shell token of the remainder as the
\* command name, also when the prefix is immediately repeated.
C18_PrefixRemovedOnce ==
    ( /\ last.entry = "process_message"
      /\ last.author # BotUser
      /\ StartsWith(last.content, prefix)
      /\ FirstToken(last.content) # <<>> )
    => IF FirstToken(last.content) \in DOMAIN commands
       THEN last.callable.kind # "none" =>
              last.callable = commands[FirstToken(last.content)]
       ELSE last.callable.kind = "none"

\* ---------------------------------------------------------------------
\* Properties of registration
\* ---------------------------------------------------------------------
\* the kind the grammar is specified to give a parameter
DeclaredKind(parameter) ==
    CASE parameter.annotation \in {"True", "False"} -> "flag"
      [] parameter.annotation = "const" -> "constant"
      [] parameter.annotation = "int" -> "integer"
      [] OTHER -> "string"

\* the kind of an argument as add_argument received it
EntryKind(entry) ==
    CASE entry.action \in {"store_true", "store_false"} -> "flag"
      [] entry.action = "store_const" -> "constant"
      [] entry.type = "int" -> "integer"
      [] OTHER -> "string"

\* C19: the grammar derived at registration has exactly one entry per
\* declared parameter other than the context parameter, in declaration
\* order; an entry is a flag for a True/False annotation, a constant for
\* a mapping with a const entry, an integer for int, a string otherwise.
C19_GrammarKinds ==
    probe.stage = "registered"
    => /\ Len(sub_parsers[nm.add]) = Len(probe.signature) - 1
       /\ \A i \in 1..Len(sub_parsers[nm.add]) :
            /\ sub_parsers[nm.add][i].dest = probe.signature[i + 1].name
            /\ EntryKind(sub_parsers[nm.add][i]) =
                 DeclaredKind(probe.signature[i + 1])

\* ---------------------------------------------------------------------
\* Properties relating rendering and selection
\* ---------------------------------------------------------------------
\* the fields of the menu message the select about to be handled finds
ShownFields == log[last'.found.idx].embeds[1].fields

\* C20: for a selection-enabled menu and every option shown on its
\* rendered page, select with the number displayed as the option's label
\* invokes the selection handler with that option's text.
C20_LabelSelectsShownOption ==
    [][ ( /\ posted' = posted + 1
          /\ last'.entry = "process_message"
          /\ IsSelect(last'.content)
          /\ last'.found.outcome = "found"
          /\ last'.found.allow_selection
          /\ last'.found.list \in DOMAIN menus
          /\ menus[last'.found.list].has_handler )
        => \A k \in 1..Len(ShownFields) :
             ShownFields[k].name = ChoiceOf(last'.content) =>
               last'.selected =
                 <<[handler |-> menus[last'.found.list].handler,
                    selection |-> ShownFields[k].value]>> ]_vars

====
